---------------------------- MODULE Spec2Model ----------------------------
(***************************************************************************)
(* Bus tracking server (server.py): position ingestion (handle_bus), the   *)
(* shared position store (_buses_data), per-viewer window bounds           *)
(* (window_boundaries) and the two duties of a viewer session              *)
(* (listen_to_browser, tell_to_browser); and the position producer         *)
(* (fake_bus.py): the vehicles (run_bus), the zero-capacity channels they  *)
(* hand their messages to and the sender of each channel (send_bus_updates *)
(* under relaunch_on_disconnect).                                          *)
(*                                                                         *)
(* JSON values are tagged records: the tag t is the JSON type, s carries a *)
(* string payload and n a numeric payload.  Latitudes and longitudes are   *)
(* points of an integer grid.  The pydantic (v1) field validators are      *)
(* modelled by what they do: a str field accepts a string or a number      *)
(* (converted with str()), a float field accepts a number or a numeric     *)
(* string (converted with float()).                                        *)
(***************************************************************************)
EXTENDS Integers, Sequences, FiniteSets, TLC

\* Largest grid coordinate a well-formed position message reports.
MaxCoord == 2

---------------------------------------------------------------------------
(* JSON values *)

Absent == [t |-> "absent", s |-> "", n |-> 0]
Str(x) == [t |-> "str", s |-> x, n |-> 0]
Num(k) == [t |-> "num", s |-> "", n |-> k]

\* Python's None (the value of `bus`, `new_window` or `errors` when unset).
None == [none |-> TRUE]

\* str(k) for the integers of the model.
Digits == <<"0", "1", "2", "3", "4", "5", "6", "7", "8", "9">>
NumToStr(k) == Digits[k + 1]

\* The strings float() accepts, and the number each denotes.
IsNumeric(x) == \E k \in 0..9 : Digits[k + 1] = x
StrToNum(x) == CHOOSE k \in 0..9 : Digits[k + 1] = x

---------------------------------------------------------------------------
(* pydantic field validation: each yields [val, errs], errs a sequence of  *)
(* error entries {loc, msg, type} as format_errors emits them.             *)

Err(loc, msg, type) == [loc |-> loc, msg |-> msg, type |-> type]

Valid(v) == [val |-> v, errs |-> <<>>]
Invalid(loc, msg, type) == [val |-> Absent, errs |-> <<Err(loc, msg, type)>>]

\* A field annotated `str` (Bus.busId, Bus.route).
str_field(loc, v) ==
    CASE v.t = "absent" -> Invalid(loc, "field required", "value_error.missing")
      [] v.t = "str"    -> Valid(v)
      [] v.t = "num"    -> Valid(Str(NumToStr(v.n)))
      [] OTHER          -> Invalid(loc, "str type expected", "type_error.str")

\* A field annotated `float` (Bus.lat, Bus.lng, the four WindowBound fields).
float_field(loc, v) ==
    CASE v.t = "absent" -> Invalid(loc, "field required", "value_error.missing")
      [] v.t = "num"    -> Valid(v)
      [] v.t = "str" /\ IsNumeric(v.s) -> Valid(Num(StrToNum(v.s)))
      [] OTHER          -> Invalid(loc, "value is not a valid float", "type_error.float")

\* BrowserWindowMessage.msgType with its pre-validator check_msg_type.
msgType_field(loc, v) ==
    CASE v.t = "absent" -> Invalid(loc, "field required", "value_error.missing")
      [] v # Str("newBounds") -> Invalid(loc, "Wrong message type", "value_error")
      [] OTHER          -> Valid(v)

\* parse_raw on a frame that is not a JSON document.
JsonDecodeError ==
    <<Err(<<"__root__">>, "Expecting value: line 1 column 1 (char 0)",
          "value_error.jsondecode")>>

format_errors(errs) == [msgType |-> "Errors", errors |-> errs]

---------------------------------------------------------------------------
(* Bus and validate_bus *)

RawBus(id, lat, lng, route) ==
    [json |-> TRUE, busId |-> id, lat |-> lat, lng |-> lng, route |-> route]

NotJson == [json |-> FALSE, busId |-> Absent, lat |-> Absent, lng |-> Absent,
            route |-> Absent]

Bus(id, lat, lng, route) == [busId |-> id, lat |-> lat, lng |-> lng, route |-> route]

validate_bus(message) ==
    IF ~message.json
    THEN [bus |-> None, errors |-> format_errors(JsonDecodeError)]
    ELSE LET id    == str_field(<<"busId">>, message.busId)
             lat   == float_field(<<"lat">>, message.lat)
             lng   == float_field(<<"lng">>, message.lng)
             route == str_field(<<"route">>, message.route)
             errs  == id.errs \o lat.errs \o lng.errs \o route.errs
         IN  IF errs # <<>>
             THEN [bus |-> None, errors |-> format_errors(errs)]
             ELSE [bus |-> Bus(id.val, lat.val, lng.val, route.val),
                   errors |-> None]

---------------------------------------------------------------------------
(* WindowBound, BrowserWindowMessage and validate_window_bounds *)

WindowBound(north, south, west, east) ==
    [north_lat |-> north, south_lat |-> south, west_lng |-> west, east_lng |-> east]

RawData(north, south, west, east) ==
    [t |-> "obj", north_lat |-> north, south_lat |-> south,
     west_lng |-> west, east_lng |-> east]

NoData == [t |-> "absent", north_lat |-> Absent, south_lat |-> Absent,
           west_lng |-> Absent, east_lng |-> Absent]

RawWindow(msgType, data) == [json |-> TRUE, msgType |-> msgType, data |-> data]

\* is_inside with the comparisons made inclusive.
is_inside_inclusive(bounds, lat, lng) ==
    LET inside_lat == bounds.south_lat.n <= lat.n /\ lat.n <= bounds.north_lat.n
        inside_lng == bounds.west_lng.n <= lng.n /\ lng.n <= bounds.east_lng.n
    IN  inside_lat /\ inside_lng

is_inside(bounds, lat, lng) ==
    LET inside_lat == bounds.south_lat.n < lat.n /\ lat.n < bounds.north_lat.n
        inside_lng == bounds.west_lng.n < lng.n /\ lng.n < bounds.east_lng.n
    IN  inside_lat /\ inside_lng

is_bus_inside(bounds, bus) == is_inside(bounds, bus.lat, bus.lng)

\* update with north_lat and south_lat assigned the other's argument.
update_swapped(current_bounds, north_lat, south_lat, west_lng, east_lng) ==
    [current_bounds EXCEPT !.north_lat = south_lat, !.south_lat = north_lat,
                           !.west_lng = west_lng, !.east_lng = east_lng]

\* update suspended between its latitude and its longitude assignments: the
\* state the other duty would see in between.
update_torn(current_bounds, north_lat, south_lat, west_lng, east_lng) ==
    [current_bounds EXCEPT !.north_lat = north_lat, !.south_lat = south_lat]

\* WindowBound.update: the four assignments, made without suspending.
update(current_bounds, north_lat, south_lat, west_lng, east_lng) ==
    [current_bounds EXCEPT !.north_lat = north_lat, !.south_lat = south_lat,
                           !.west_lng = west_lng, !.east_lng = east_lng]

data_field(data) ==
    IF data.t = "absent"
    THEN [val |-> None,
          errs |-> <<Err(<<"data">>, "field required", "value_error.missing")>>]
    ELSE LET north == float_field(<<"data", "north_lat">>, data.north_lat)
             south == float_field(<<"data", "south_lat">>, data.south_lat)
             west  == float_field(<<"data", "west_lng">>, data.west_lng)
             east  == float_field(<<"data", "east_lng">>, data.east_lng)
             errs  == north.errs \o south.errs \o west.errs \o east.errs
         IN  IF errs # <<>>
             THEN [val |-> None, errs |-> errs]
             ELSE [val |-> WindowBound(north.val, south.val, west.val, east.val),
                   errs |-> <<>>]

validate_window_bounds(message) ==
    IF ~message.json
    THEN [new_window |-> None, errors |-> format_errors(JsonDecodeError)]
    ELSE LET type == msgType_field(<<"msgType">>, message.msgType)
             data == data_field(message.data)
             errs == type.errs \o data.errs
         IN  IF errs # <<>>
             THEN [new_window |-> None, errors |-> format_errors(errs)]
             ELSE [new_window |-> data.val, errors |-> None]

---------------------------------------------------------------------------
(* The frames the clients send *)

Route(k) == IF k % 2 = 1 THEN "42-K" ELSE "14k"

\* Well-formed positions of vehicle "a" along the diagonal of the grid, from
\* the origin.
GoodBus(k) == RawBus(Str("a"), Num(k), Num(k), Str(Route(k)))

\* Accepted with conversion: a numeric busId and route, a numeric string lat.
CoercedBus == RawBus(Num(7), Str("2"), Num(1), Num(7))

\* Accepted: the busId is a string, although an empty one.
EmptyIdBus == RawBus(Str(""), Num(1), Num(1), Str("42-K"))

\* harmful_bus._BAD_MESSAGES, and a frame that is not JSON.
BadBusMessages ==
    { RawBus(Absent, Num(1), Num(1), Str("42-K")),
      RawBus(Str("good"), Str("not a digit"), Num(1), Str("42-K")),
      RawBus(Str("good"), Num(1), Str("string in longitude"), Str("42-K")),
      RawBus(Str("good"), Num(1), Num(1), Absent),
      NotJson }

BusMessages ==
    {GoodBus(k) : k \in 0..MaxCoord} \cup {CoercedBus, EmptyIdBus} \cup BadBusMessages

\* Two overlapping rectangles; the second gives its bounds as numeric strings.
GoodWindow == RawWindow(Str("newBounds"), RawData(Num(2), Num(0), Num(0), Num(2)))
CoercedWindow ==
    RawWindow(Str("newBounds"), RawData(Str("3"), Str("1"), Str("1"), Str("3")))

\* From harmful_client._BAD_MESSAGES.
BadWindow == RawWindow(Str("notSoNewBound"), RawData(Num(2), Num(0), Num(0), Num(2)))

BadWindowMessages ==
    { BadWindow,
      RawWindow(Str("newBounds"), RawData(Num(2), Num(0), Num(0), Str("37.6-string"))),
      RawWindow(Absent, NoData),
      RawWindow(Str("newBounds"), NoData) }

WindowMessages == {GoodWindow, CoercedWindow} \cup BadWindowMessages

---------------------------------------------------------------------------
(* The producer's options and routes *)

\* --websockets_number: the channels, each with its sender and connection.
websockets_number == 2

\* --routes_number and --buses_per_route: the vehicles are numbered in the
\* order main creates them.
routes_number == 3
buses_per_route == 1

Slots == 1..websockets_number
Vehicles == 1..(routes_number * buses_per_route)

\* route['coordinates'] of every route file: two points.
coordinates == <<Num(0), Num(1)>>

\* Every vehicle given the first channel.
channel_choice_first(i) == 1

\* next(channel_choice) for the i-th vehicle created: cycle(send_channels).
channel_choice(i) == ((i - 1) % websockets_number) + 1

\* Every sender given the channel of the first loop iteration.
rcv_channel_first(s) == 1

\* The rcv_channel main passes to the s-th send_bus_updates: the other end
\* of send_channels[s].
rcv_channel(s) == s

\* The message run_bus builds for `point` of the route.
bus_message(bus_id, point) ==
    [busId |-> bus_id, lat |-> coordinates[point + 1],
     lng |-> coordinates[point + 1], route |-> bus_id]

---------------------------------------------------------------------------
(* State *)

\* Most frames the clients have queued, over the connections' sessions.
MaxArrivals == 3

BusConns == {"bus1", "bus2"}
Browsers == {"browser1", "browser2"}

VARIABLES
    bus_send_channel,   \* run_bus: the channel (slot) given as bus_channel
    run_bus_pc,         \* run_bus: "started", "send" (parked in send), "sleep",
                        \*   "broken" (woken with BrokenResourceError),
                        \*   "returned", "raised" (unhandled error), "cancelled"
    run_bus_point,      \* run_bus: index in the route of the message last built
    send_tasks,         \* channel: the messages of the tasks parked in send, in order
    channel_data,       \* channel: the buffered messages
    send_closed,        \* channel: the send end (shared by its vehicles) is closed
    receive_closed,     \* channel: the receive end is closed
    updates_pc,         \* send_bus_updates: "connect", "receive", "send_message",
                        \*   "sleep" (relaunch_on_disconnect's delay), "gone", "cancelled"
    updates_ws,         \* send_bus_updates: its connection, "none", "open", "closed"
    updates_message,    \* send_bus_updates: `message` while its send is pending
    updates_failures,   \* history: consecutive failures of the slot, up to MaxFailures
    sent                \* the frame a sender sent in the last step, if any

VARIABLES
    recording,          \* history: the messages are numbered and logged
    built,              \* history: how many messages the vehicle has built; the
                        \*   n-th message it builds has serial n
    taken,              \* history: serial of `message` of send_bus_updates, 0 if none
    forwarded,          \* history: per vehicle, the serials sent, in order
    dropped             \* history: per vehicle, the serials lost in a failed send

history_vars == <<recording, built, taken, forwarded, dropped>>

producer_vars == <<bus_send_channel, run_bus_pc, run_bus_point, send_tasks,
                   channel_data, send_closed, receive_closed, updates_pc,
                   updates_ws, updates_message, updates_failures, sent,
                   history_vars>>

VARIABLES
    buses_data,         \* _buses_data: busId -> Bus
    bus_applied,        \* history: busId -> the frame last written to _buses_data
    bus_ws,             \* ingestion connection: "none", "open" or "closed"
    bus_pc,             \* handle_bus: "idle", "get_message", "send_message", "returned"
    bus_errors,         \* handle_bus: `errors` while its reply is pending
    browser_ws,         \* viewer connection: "none", "open" or "closed"
    browser_pc,         \* handle_browser: "idle", "nursery", "returned"
    window_boundaries,  \* the WindowBound of the connection's context
    window_applied,     \* history: the frame last applied to window_boundaries
    listen_pc,          \* listen_to_browser: "get_message", "send_message", "done"
    listen_errors,      \* listen_to_browser: `errors` while its reply is pending
    tell_pc,            \* tell_to_browser: "build", "send_message", "done"
    response_msg,       \* tell_to_browser: `response_msg` while its send is pending
    wire,               \* the frame the server sent in the last step, if any
    inbox,              \* per connection: the frames received and not yet read
    arrived,            \* history: the frames queued on the connection, in order
    handled             \* history: how many of them get_message has returned

bus_vars == <<buses_data, bus_applied, bus_ws, bus_pc, bus_errors>>
browser_vars == <<browser_ws, browser_pc, window_boundaries, window_applied,
                  listen_pc, listen_errors, tell_pc, response_msg>>
inbox_vars == <<inbox, arrived, handled>>
server_vars == <<bus_vars, browser_vars, inbox_vars, wire>>
vars == <<server_vars, producer_vars>>

NoFrame == [conn |-> "", msg |-> None]
Frame(c, m) == [conn |-> c, msg |-> m]

\* A send_message call that is never awaited: nothing is written.
ws_send_unawaited(c, m) == NoFrame

\* await ws.send_message(...) on an open connection.
ws_send(c, m) == Frame(c, m)

\* A default rectangle that covers the grid.
WholeMapBounds == WindowBound(Num(9), Num(0 - 1), Num(0 - 1), Num(9))

\* WindowBound(north_lat=0, south_lat=0, west_lng=0, east_lng=0)
ZeroBounds == WindowBound(Num(0), Num(0), Num(0), Num(0))

\* The history bus_applied after `frame` is written under `key`.
Applied(history, key, frame) ==
    [k \in DOMAIN history \cup {key} |->
        IF k = key
        THEN [frame |-> frame,
              replaced |-> key \in DOMAIN history /\ history[key].frame # frame]
        ELSE history[k]]

\* Nothing forwarded in the last step.
NotSent == [slot |-> 0, message |-> None]

\* fake_bus.main has run to the end of its nursery block: every channel is
\* open with its sender started, every vehicle started on the channel
\* channel_choice gave it; its random start_offset shows at its first step.
ProducerInit ==
    /\ bus_send_channel = [b \in Vehicles |-> channel_choice(b)]
    /\ run_bus_pc = [b \in Vehicles |-> "started"]
    /\ run_bus_point = [b \in Vehicles |-> 0]
    /\ send_tasks = [s \in Slots |-> <<>>]
    /\ channel_data = [s \in Slots |-> <<>>]
    /\ send_closed = [s \in Slots |-> FALSE]
    /\ receive_closed = [s \in Slots |-> FALSE]
    /\ updates_pc = [s \in Slots |-> "connect"]
    /\ updates_ws = [s \in Slots |-> "none"]
    /\ updates_message = [s \in Slots |-> None]
    /\ updates_failures = [s \in Slots |-> 0]
    /\ sent = NotSent
    /\ built = [b \in Vehicles |-> 0]
    /\ taken = [s \in Slots |-> 0]
    /\ forwarded = [b \in Vehicles |-> <<>>]
    /\ dropped = [b \in Vehicles |-> {}]

\* server.py is imported and main is serving: no connection yet, the store
\* empty.
ServerInit ==
    /\ inbox = [c \in BusConns \cup Browsers |-> <<>>]
    /\ arrived = [c \in BusConns \cup Browsers |-> <<>>]
    /\ handled = [c \in BusConns \cup Browsers |-> 0]
    /\ buses_data = <<>>
    /\ bus_applied = <<>>
    /\ bus_ws = [c \in BusConns |-> "none"]
    /\ bus_pc = [c \in BusConns |-> "idle"]
    /\ bus_errors = [c \in BusConns |-> None]
    /\ browser_ws = [v \in Browsers |-> "none"]
    /\ browser_pc = [v \in Browsers |-> "idle"]
    /\ window_boundaries = [v \in Browsers |-> None]
    /\ window_applied = [v \in Browsers |-> None]
    /\ listen_pc = [v \in Browsers |-> "done"]
    /\ listen_errors = [v \in Browsers |-> None]
    /\ tell_pc = [v \in Browsers |-> "done"]
    /\ response_msg = [v \in Browsers |-> None]
    /\ wire = NoFrame

Init ==
    /\ ProducerInit
    /\ ServerInit
    /\ recording = FALSE

---------------------------------------------------------------------------
(* handle_bus *)

\* A write that changes the coordinates of an entry already present and
\* keeps its other fields.
store_bus_merge(data, bus) ==
    [k \in DOMAIN data \cup {bus.busId} |->
        IF k # bus.busId THEN data[k]
        ELSE IF k \in DOMAIN data
             THEN [data[k] EXCEPT !.lat = bus.lat, !.lng = bus.lng]
             ELSE bus]

\* _buses_data[bus.busId] = bus
store_bus(data, bus) ==
    [k \in DOMAIN data \cup {bus.busId} |-> IF k = bus.busId THEN bus ELSE data[k]]

\* The store written before `errors` is looked at: a frame that fails
\* validation leaves an unvalidated, empty Bus.
buses_after_unchecked(data, validated) ==
    IF validated.errors # None
    THEN store_bus(data, Bus(Absent, Absent, Absent, Absent))
    ELSE store_bus(data, validated.bus)

\* _buses_data after one iteration of handle_bus's loop on `validated`.
buses_after(data, validated) ==
    IF validated.errors # None THEN data ELSE store_bus(data, validated.bus)

\* A handler that forgets the positions when its connection closes.
buses_expire_on_closed(data) == <<>>

\* _buses_data after ConnectionClosed is caught: the handler only breaks.
buses_on_closed(data) == data

\* `break` in place of `continue` after the errors are sent.
bus_break_after_reply == "returned"

\* `continue`: back to get_message.
bus_after_reply == "get_message"

\* The frame a handler is given out of turn: the one that arrived last.
next_message_newest(queue) == queue[Len(queue)]

\* ws.get_message() with frames waiting: the one that arrived first.
next_message(queue) == Head(queue)

RECURSIVE TotalLen(_, _)
TotalLen(queues, conns) ==
    IF conns = {} THEN 0
    ELSE LET c == CHOOSE x \in conns : TRUE
         IN  Len(queues[c]) + TotalLen(queues, conns \ {c})

\* A client sends `message` on open connection c while the handler is busy
\* or has not run yet: the frame waits in the connection's receive queue.
client_send(c, message) ==
    /\ IF c \in BusConns THEN bus_ws[c] = "open" ELSE browser_ws[c] = "open"
    /\ TotalLen(arrived, DOMAIN arrived) < MaxArrivals
    /\ inbox' = [inbox EXCEPT ![c] = Append(@, message)]
    /\ arrived' = [arrived EXCEPT ![c] = Append(@, message)]
    /\ wire' = NoFrame
    /\ UNCHANGED <<handled, bus_vars, browser_vars, producer_vars>>

\* request.accept(): a new ingestion connection is served.
bus_accept(c) ==
    /\ bus_pc[c] \in {"idle", "returned"}
    /\ bus_ws' = [bus_ws EXCEPT ![c] = "open"]
    /\ bus_pc' = [bus_pc EXCEPT ![c] = "get_message"]
    /\ bus_errors' = [bus_errors EXCEPT ![c] = None]
    /\ wire' = NoFrame
    /\ inbox' = [inbox EXCEPT ![c] = <<>>]
    /\ arrived' = [arrived EXCEPT ![c] = <<>>]
    /\ handled' = [handled EXCEPT ![c] = 0]
    /\ UNCHANGED <<buses_data, bus_applied, browser_vars, producer_vars>>

\* get_message() returns `message`, the frame waiting first in the
\* connection's receive queue or, with none waiting, the frame that arrives
\* next: validate it, then write it to the store or go on to send the errors.
handle_bus_message(c, message) ==
    /\ bus_pc[c] = "get_message"
    /\ bus_ws[c] = "open"
    /\ LET validated == validate_bus(message) IN
        /\ buses_data' = buses_after(buses_data, validated)
        /\ IF validated.errors # None
           THEN /\ bus_pc' = [bus_pc EXCEPT ![c] = "send_message"]
                /\ bus_errors' = [bus_errors EXCEPT ![c] = validated.errors]
                /\ UNCHANGED bus_applied
           ELSE /\ bus_applied' = Applied(bus_applied, validated.bus.busId, message)
                /\ UNCHANGED <<bus_pc, bus_errors>>
    /\ wire' = NoFrame
    /\ inbox[c] # <<>> => message = next_message(inbox[c])
    /\ inbox' = [inbox EXCEPT ![c] = IF @ = <<>> THEN @ ELSE Tail(@)]
    /\ handled' = [handled EXCEPT ![c] = IF inbox[c] = <<>> THEN @ ELSE @ + 1]
    /\ UNCHANGED arrived
    /\ UNCHANGED <<bus_ws, browser_vars, producer_vars>>

\* send_message(json.dumps(errors)) completes, or raises ConnectionClosed.
handle_bus_send(c) ==
    /\ bus_pc[c] = "send_message"
    /\ IF bus_ws[c] = "open"
       THEN /\ wire' = ws_send(c, bus_errors[c])
            /\ bus_pc' = [bus_pc EXCEPT ![c] = bus_after_reply]
       ELSE /\ wire' = NoFrame
            /\ bus_pc' = [bus_pc EXCEPT ![c] = "returned"]
    /\ bus_errors' = [bus_errors EXCEPT ![c] = None]
    /\ buses_data' = IF bus_ws[c] = "open" THEN buses_data
                     ELSE buses_on_closed(buses_data)
    /\ UNCHANGED <<bus_applied, bus_ws, browser_vars, producer_vars, inbox_vars>>

\* get_message() raises ConnectionClosed: the loop breaks.
handle_bus_closed(c) ==
    /\ bus_pc[c] = "get_message"
    /\ bus_ws[c] = "closed"
    /\ bus_pc' = [bus_pc EXCEPT ![c] = "returned"]
    /\ buses_data' = buses_on_closed(buses_data)
    /\ wire' = NoFrame
    /\ UNCHANGED <<bus_applied, bus_ws, bus_errors, browser_vars, producer_vars, inbox_vars>>

\* The remote end hangs up, or the network fails.
bus_disconnect(c) ==
    /\ bus_ws[c] = "open"
    /\ bus_ws' = [bus_ws EXCEPT ![c] = "closed"]
    /\ wire' = NoFrame
    /\ UNCHANGED <<buses_data, bus_applied, bus_pc, bus_errors, browser_vars, producer_vars, inbox_vars>>

---------------------------------------------------------------------------
(* handle_browser, listen_to_browser, tell_to_browser *)

\* The buses of `data` inside `bounds`, as tell_to_browser lists them.
buses_inside(data, bounds) ==
    {data[k] : k \in {j \in DOMAIN data : is_bus_inside(bounds, data[j])}}

Buses(inside) == [msgType |-> "Buses", buses |-> inside]

\* window_boundaries after one iteration of listen_to_browser's loop.
bounds_after(current_bounds, validated) ==
    IF validated.errors # None
    THEN current_bounds
    ELSE update(current_bounds,
                validated.new_window.north_lat, validated.new_window.south_lat,
                validated.new_window.west_lng, validated.new_window.east_lng)

\* ConnectionClosed caught without leaving the loop.
tell_ignores_closed == "build"

\* tell_to_browser on ConnectionClosed: `break`.
tell_on_closed == "done"

\* A module-level variable in place of the ContextVar: one value for all the
\* handlers.
window_boundaries_set_global(contexts, v, bounds) ==
    [u \in DOMAIN contexts |-> bounds]

\* window_boundaries.set(bounds) in the context of handler v's task: the
\* contexts of the other handlers' tasks keep their own value.
window_boundaries_set(contexts, v, bounds) ==
    [contexts EXCEPT ![v] = bounds]

\* request.accept(), window_boundaries.set(...), and both duties started.
handle_browser_accept(v) ==
    /\ browser_pc[v] \in {"idle", "returned"}
    /\ browser_ws' = [browser_ws EXCEPT ![v] = "open"]
    /\ browser_pc' = [browser_pc EXCEPT ![v] = "nursery"]
    /\ window_boundaries' = window_boundaries_set(window_boundaries, v, ZeroBounds)
    /\ window_applied' = [window_applied EXCEPT ![v] = None]
    /\ listen_pc' = [listen_pc EXCEPT ![v] = "get_message"]
    /\ listen_errors' = [listen_errors EXCEPT ![v] = None]
    /\ tell_pc' = [tell_pc EXCEPT ![v] = "build"]
    /\ response_msg' = [response_msg EXCEPT ![v] = None]
    /\ wire' = NoFrame
    /\ inbox' = [inbox EXCEPT ![v] = <<>>]
    /\ arrived' = [arrived EXCEPT ![v] = <<>>]
    /\ handled' = [handled EXCEPT ![v] = 0]
    /\ UNCHANGED <<producer_vars, bus_vars>>

\* get_message() returns `message`, the frame waiting first in the
\* connection's receive queue or, with none waiting, the frame that arrives
\* next: validate it, then update the bounds in place or go on to send the
\* errors.
listen_to_browser_message(v, message) ==
    /\ browser_pc[v] = "nursery"
    /\ listen_pc[v] = "get_message"
    /\ browser_ws[v] = "open"
    /\ LET validated == validate_window_bounds(message) IN
        /\ window_boundaries' =
               [window_boundaries EXCEPT
                    ![v] = bounds_after(window_boundaries[v], validated)]
        /\ IF validated.errors # None
           THEN /\ listen_pc' = [listen_pc EXCEPT ![v] = "send_message"]
                /\ listen_errors' = [listen_errors EXCEPT ![v] = validated.errors]
                /\ UNCHANGED window_applied
           ELSE /\ window_applied' = [window_applied EXCEPT ![v] = message]
                /\ UNCHANGED <<listen_pc, listen_errors>>
    /\ wire' = NoFrame
    /\ inbox[v] # <<>> => message = next_message(inbox[v])
    /\ inbox' = [inbox EXCEPT ![v] = IF @ = <<>> THEN @ ELSE Tail(@)]
    /\ handled' = [handled EXCEPT ![v] = IF inbox[v] = <<>> THEN @ ELSE @ + 1]
    /\ UNCHANGED arrived
    /\ UNCHANGED <<producer_vars, bus_vars, browser_ws, browser_pc, tell_pc, response_msg>>

\* send_message(json.dumps(errors)) completes, or raises ConnectionClosed.
listen_to_browser_send(v) ==
    /\ browser_pc[v] = "nursery"
    /\ listen_pc[v] = "send_message"
    /\ IF browser_ws[v] = "open"
       THEN /\ wire' = ws_send(v, listen_errors[v])
            /\ listen_pc' = [listen_pc EXCEPT ![v] = "get_message"]
       ELSE /\ wire' = NoFrame
            /\ listen_pc' = [listen_pc EXCEPT ![v] = "done"]
    /\ listen_errors' = [listen_errors EXCEPT ![v] = None]
    /\ UNCHANGED <<producer_vars, inbox_vars, bus_vars, browser_ws, browser_pc, window_boundaries,
                   window_applied, tell_pc, response_msg>>

\* get_message() raises ConnectionClosed: the loop breaks.
listen_to_browser_closed(v) ==
    /\ browser_pc[v] = "nursery"
    /\ listen_pc[v] = "get_message"
    /\ browser_ws[v] = "closed"
    /\ listen_pc' = [listen_pc EXCEPT ![v] = "done"]
    /\ wire' = NoFrame
    /\ UNCHANGED <<producer_vars, inbox_vars, bus_vars, browser_ws, browser_pc, window_boundaries,
                   window_applied, listen_errors, tell_pc, response_msg>>

\* The duty ends after its first message.
tell_once == "done"

\* tell_to_browser after a send: trio.sleep(0.1), then the loop's next turn.
tell_after_send == "build"

\* The bounds read once, as a copy taken when the duty starts: the rectangle
\* handle_browser has just set.
window_boundaries_get_copy(contexts, v) == ZeroBounds

\* window_boundaries.get(): the WindowBound object of the connection's
\* context, the one listen_to_browser updates in place.
window_boundaries_get(contexts, v) == contexts[v]

\* The top of tell_to_browser's loop (at its start, or when the sleep ends):
\* read the bounds, filter the store, build response_msg.
tell_to_browser_build(v) ==
    /\ browser_pc[v] = "nursery"
    /\ tell_pc[v] = "build"
    /\ response_msg' =
           [response_msg EXCEPT
                ![v] = Buses(buses_inside(buses_data,
                           window_boundaries_get(window_boundaries, v)))]
    /\ tell_pc' = [tell_pc EXCEPT ![v] = "send_message"]
    /\ wire' = NoFrame
    /\ UNCHANGED <<producer_vars, inbox_vars, bus_vars, browser_ws, browser_pc, window_boundaries,
                   window_applied, listen_pc, listen_errors>>

\* send_message(json.dumps(response_msg)) completes and the duty sleeps, or
\* it raises ConnectionClosed and the loop breaks.
tell_to_browser_send(v) ==
    /\ browser_pc[v] = "nursery"
    /\ tell_pc[v] = "send_message"
    /\ IF browser_ws[v] = "open"
       THEN /\ wire' = ws_send(v, response_msg[v])
            /\ tell_pc' = [tell_pc EXCEPT ![v] = tell_after_send]
       ELSE /\ wire' = NoFrame
            /\ tell_pc' = [tell_pc EXCEPT ![v] = tell_on_closed]
    /\ response_msg' = [response_msg EXCEPT ![v] = None]
    /\ UNCHANGED <<producer_vars, inbox_vars, bus_vars, browser_ws, browser_pc, window_boundaries,
                   window_applied, listen_pc, listen_errors>>

\* Both duties have ended: the nursery block exits and handle_browser returns.
handle_browser_return(v) ==
    /\ browser_pc[v] = "nursery"
    /\ listen_pc[v] = "done"
    /\ tell_pc[v] = "done"
    /\ browser_pc' = [browser_pc EXCEPT ![v] = "returned"]
    /\ wire' = NoFrame
    /\ UNCHANGED <<producer_vars, inbox_vars, bus_vars, browser_ws, window_boundaries, window_applied,
                   listen_pc, listen_errors, tell_pc, response_msg>>

\* The remote end hangs up, or the network fails.
browser_disconnect(v) ==
    /\ browser_ws[v] = "open"
    /\ browser_ws' = [browser_ws EXCEPT ![v] = "closed"]
    /\ wire' = NoFrame
    /\ UNCHANGED <<producer_vars, inbox_vars, bus_vars, browser_pc, window_boundaries, window_applied,
                   listen_pc, listen_errors, tell_pc, response_msg>>

---------------------------------------------------------------------------
(* fake_bus: the channels (trio.open_memory_channel), run_bus,               *)
(* send_bus_updates and relaunch_on_disconnect                               *)

\* Longest run of consecutive failures of a slot the history counts.
MaxFailures == 2

\* trio.open_memory_channel(0)
max_buffer_size == 0

\* A channel opened with max_buffer_size=math.inf.
channel_has_room_always(data) == TRUE

\* send_nowait: len(data) < max_buffer_size
channel_has_room(data) == Len(data) < max_buffer_size

\* The pcs after the tasks parked with the messages `tasks` are woken.
woken(pcs, tasks, outcome) ==
    [b \in Vehicles |->
        IF \E i \in 1..Len(tasks) : tasks[i].busId = b THEN outcome ELSE pcs[b]]

\* The loop entered again at once, the sleep left out.
relaunch_at_once == "connect"

\* relaunch_on_disconnect's except clauses: log, then trio.sleep(delay).
relaunch_on_error == "sleep"

failed(n) == IF n < MaxFailures THEN n + 1 ELSE n

\* The point after `point`, the route starting over after its end.
next_point(point) == (point + 1) % Len(coordinates)

\* run_bus starts, or its sleep ends: it builds the next message and calls
\* bus_channel.send.  On a closed send end the call raises
\* ClosedResourceError, which nothing catches; with the receive end closed it
\* raises BrokenResourceError, run_bus returns and `async with bus_channel`
\* closes the send end, waking the tasks parked in it with
\* ClosedResourceError; otherwise the message is buffered if there is room,
\* else the task parks.
run_bus_send(b) ==
    /\ run_bus_pc[b] \in {"started", "sleep"}
    /\ \E start_offset \in 0..(Len(coordinates) - 1) :
        LET s       == bus_send_channel[b]
            point   == IF run_bus_pc[b] = "started" THEN start_offset
                       ELSE next_point(run_bus_point[b])
            message == bus_message(b, point)
        IN  /\ run_bus_point' = [run_bus_point EXCEPT ![b] = point]
            /\ CASE send_closed[s] ->
                     /\ run_bus_pc' = [run_bus_pc EXCEPT ![b] = "raised"]
                     /\ UNCHANGED <<send_tasks, channel_data, send_closed>>
                 [] ~send_closed[s] /\ receive_closed[s] ->
                     /\ run_bus_pc' = [woken(run_bus_pc, send_tasks[s], "raised")
                                           EXCEPT ![b] = "returned"]
                     /\ send_tasks' = [send_tasks EXCEPT ![s] = <<>>]
                     /\ send_closed' = [send_closed EXCEPT ![s] = TRUE]
                     /\ UNCHANGED channel_data
                 [] ~send_closed[s] /\ ~receive_closed[s]
                        /\ channel_has_room(channel_data[s]) ->
                     /\ run_bus_pc' = [run_bus_pc EXCEPT ![b] = "sleep"]
                     /\ channel_data' = [channel_data EXCEPT ![s] = Append(@, message)]
                     /\ UNCHANGED <<send_tasks, send_closed>>
                 [] OTHER ->
                     /\ run_bus_pc' = [run_bus_pc EXCEPT ![b] = "send"]
                     /\ send_tasks' = [send_tasks EXCEPT ![s] = Append(@, message)]
                     /\ UNCHANGED <<channel_data, send_closed>>
    /\ sent' = NotSent
    /\ built' = IF recording THEN [built EXCEPT ![b] = @ + 1] ELSE built
    /\ UNCHANGED <<server_vars, bus_send_channel, receive_closed, updates_pc,
                   updates_ws, updates_message, updates_failures,
                   recording, taken, forwarded, dropped>>

\* The serial of `message` as the channel gives it out: the count of its
\* vehicle's messages less those of the vehicle still `waiting` behind it.
serial_of(message, waiting, counts) ==
    counts[message.busId]
        - Cardinality({i \in 1..Len(waiting) : waiting[i].busId = message.busId})

\* The hand-off: send_bus_updates is in `async for message in
\* receive_channel`; receive takes the value of the task parked first (which
\* goes on to its sleep) through the buffer, and returns the buffer's head.
hand_off(s) ==
    LET r     == rcv_channel(s)
        tasks == send_tasks[r]
        data  == IF tasks # <<>> THEN Append(channel_data[r], Head(tasks))
                 ELSE channel_data[r]
    IN  /\ updates_pc[s] = "receive"
        /\ ~receive_closed[r]
        /\ data # <<>>
        /\ updates_message' = [updates_message EXCEPT ![s] = Head(data)]
        /\ updates_pc' = [updates_pc EXCEPT ![s] = "send_message"]
        /\ channel_data' = [channel_data EXCEPT ![r] = Tail(data)]
        /\ IF tasks # <<>>
           THEN /\ send_tasks' = [send_tasks EXCEPT ![r] = Tail(tasks)]
                /\ run_bus_pc' = woken(run_bus_pc, <<Head(tasks)>>, "sleep")
           ELSE UNCHANGED <<send_tasks, run_bus_pc>>
        /\ sent' = NotSent
        /\ taken' = IF recording
                     THEN [taken EXCEPT ![s] = serial_of(Head(data), Tail(channel_data[r] \o tasks), built)]
                     ELSE taken
        /\ UNCHANGED <<server_vars, bus_send_channel, run_bus_point, send_closed,
                       receive_closed, updates_ws, updates_failures,
                       recording, built, forwarded, dropped>>

\* open_websocket_url succeeds: the connection is open and the sender
\* starts to receive.
send_bus_updates_connect(s) ==
    /\ updates_pc[s] = "connect"
    /\ updates_ws' = [updates_ws EXCEPT ![s] = "open"]
    /\ updates_pc' = [updates_pc EXCEPT ![s] = "receive"]
    /\ sent' = NotSent
    /\ UNCHANGED <<server_vars, bus_send_channel, run_bus_pc, run_bus_point,
                   send_tasks, channel_data, send_closed, receive_closed,
                   updates_message, updates_failures,
                   history_vars>>

\* open_websocket_url raises HandshakeError (the server refuses, times out or
\* cannot be reached): relaunch_on_disconnect logs and sleeps.
send_bus_updates_handshake_error(s) ==
    /\ updates_pc[s] = "connect"
    /\ updates_pc' = [updates_pc EXCEPT ![s] = relaunch_on_error]
    /\ updates_failures' = [updates_failures EXCEPT ![s] = failed(@)]
    /\ sent' = NotSent
    /\ UNCHANGED <<server_vars, bus_send_channel, run_bus_pc, run_bus_point,
                   send_tasks, channel_data, send_closed, receive_closed,
                   updates_ws, updates_message,
                   history_vars>>

\* An except clause that puts the message back at the head of the channel.
channel_put_back(data, message) == <<message>> \o data

\* relaunch_on_disconnect's except clauses leave the channel as it is.
channel_after_closed(data, message) == data

\* ws.send_message(json.dumps(message)) completes and the loop receives
\* again, or it raises ConnectionClosed: the message is lost with the frame
\* of send_bus_updates, relaunch_on_disconnect logs and sleeps.
send_bus_updates_send(s) ==
    LET message == updates_message[s]
        b       == message.busId
    IN  /\ updates_pc[s] = "send_message"
        /\ IF updates_ws[s] = "open"
           THEN /\ sent' = [slot |-> s, message |-> message]
                /\ updates_pc' = [updates_pc EXCEPT ![s] = "receive"]
                /\ updates_failures' = [updates_failures EXCEPT ![s] = 0]
                /\ forwarded' = IF recording
                                 THEN [forwarded EXCEPT ![b] = Append(@, taken[s])]
                                 ELSE forwarded
                /\ UNCHANGED <<updates_ws, channel_data, dropped>>
           ELSE /\ sent' = NotSent
                /\ updates_pc' = [updates_pc EXCEPT ![s] = relaunch_on_error]
                /\ updates_failures' = [updates_failures EXCEPT ![s] = failed(@)]
                /\ updates_ws' = [updates_ws EXCEPT ![s] = "none"]
                /\ channel_data' = [channel_data EXCEPT ![rcv_channel(s)] =
                                        channel_after_closed(@, message)]
                /\ dropped' = IF recording
                               THEN [dropped EXCEPT ![b] = @ \cup {taken[s]}]
                               ELSE dropped
                /\ UNCHANGED forwarded
        /\ updates_message' = [updates_message EXCEPT ![s] = None]
        /\ taken' = [taken EXCEPT ![s] = 0]
        /\ UNCHANGED <<server_vars, bus_send_channel, run_bus_pc, run_bus_point,
                       send_tasks, send_closed, receive_closed, recording, built>>

\* trio.sleep(delay) ends: `while True` calls send_bus_updates again.
relaunch_on_disconnect_wake(s) ==
    /\ updates_pc[s] = "sleep"
    /\ updates_pc' = [updates_pc EXCEPT ![s] = "connect"]
    /\ sent' = NotSent
    /\ UNCHANGED <<server_vars, bus_send_channel, run_bus_pc, run_bus_point,
                   send_tasks, channel_data, send_closed, receive_closed,
                   updates_ws, updates_message, updates_failures,
                   history_vars>>

\* The server closes the slot's connection, or the network fails.
updates_disconnect(s) ==
    /\ updates_ws[s] = "open"
    /\ updates_ws' = [updates_ws EXCEPT ![s] = "closed"]
    /\ sent' = NotSent
    /\ UNCHANGED <<server_vars, bus_send_channel, run_bus_pc, run_bus_point,
                   send_tasks, channel_data, send_closed, receive_closed,
                   updates_pc, updates_message, updates_failures,
                   history_vars>>

\* The receiving side of slot s's channel goes away for good: its sender has
\* exited and the receive end is closed, the case run_bus's `except
\* trio.BrokenResourceError` is written for.  The tasks parked in send are
\* woken with BrokenResourceError and what the channel held is dropped.
receive_channel_gone(s) ==
    /\ ~receive_closed[s]
    /\ updates_pc[s] \in {"connect", "receive", "send_message", "sleep"}
    /\ receive_closed' = [receive_closed EXCEPT ![s] = TRUE]
    /\ updates_pc' = [updates_pc EXCEPT ![s] = "gone"]
    /\ updates_ws' = [updates_ws EXCEPT ![s] = "none"]
    /\ updates_message' = [updates_message EXCEPT ![s] = None]
    /\ run_bus_pc' = woken(run_bus_pc, send_tasks[s], "broken")
    /\ send_tasks' = [send_tasks EXCEPT ![s] = <<>>]
    /\ channel_data' = [channel_data EXCEPT ![s] = <<>>]
    /\ sent' = NotSent
    /\ taken' = [taken EXCEPT ![s] = 0]
    /\ UNCHANGED <<server_vars, bus_send_channel, run_bus_point, send_closed,
                   updates_failures, recording, built, forwarded, dropped>>

\* run_bus woken in send with BrokenResourceError: it logs and returns, and
\* `async with bus_channel` closes the send end its slot's vehicles share.
run_bus_broken(b) ==
    LET s == bus_send_channel[b] IN
    /\ run_bus_pc[b] = "broken"
    /\ run_bus_pc' = [woken(run_bus_pc, send_tasks[s], "raised")
                          EXCEPT ![b] = "returned"]
    /\ send_tasks' = [send_tasks EXCEPT ![s] = <<>>]
    /\ send_closed' = [send_closed EXCEPT ![s] = TRUE]
    /\ sent' = NotSent
    /\ UNCHANGED <<server_vars, bus_send_channel, run_bus_point, channel_data,
                   receive_closed, updates_pc, updates_ws, updates_message,
                   updates_failures,
                   history_vars>>

\* An error has left a run_bus task: main's nursery cancels every task still
\* running and main ends with the error.
main_cancel ==
    /\ \E b \in Vehicles : run_bus_pc[b] = "raised"
    /\ \/ \E b \in Vehicles : run_bus_pc[b] \notin {"raised", "returned", "cancelled"}
       \/ \E s \in Slots : updates_pc[s] \notin {"gone", "cancelled"}
    /\ run_bus_pc' = [b \in Vehicles |->
                          IF run_bus_pc[b] \in {"raised", "returned"}
                          THEN run_bus_pc[b] ELSE "cancelled"]
    /\ updates_pc' = [s \in Slots |->
                          IF updates_pc[s] = "gone" THEN "gone" ELSE "cancelled"]
    /\ updates_ws' = [s \in Slots |-> "none"]
    /\ updates_message' = [s \in Slots |-> None]
    /\ send_tasks' = [s \in Slots |-> <<>>]
    /\ channel_data' = [s \in Slots |-> <<>>]
    /\ sent' = NotSent
    /\ taken' = [s \in Slots |-> 0]
    /\ UNCHANGED <<server_vars, bus_send_channel, run_bus_point, send_closed,
                   receive_closed, updates_failures, recording, built,
                   forwarded, dropped>>

---------------------------------------------------------------------------
(* Specifications *)

BusStep(c, messages) ==
    \/ bus_accept(c)
    \/ \E message \in messages : handle_bus_message(c, message)
    \/ handle_bus_send(c)
    \/ handle_bus_closed(c)
    \/ bus_disconnect(c)

BrowserStep(v, messages) ==
    \/ handle_browser_accept(v)
    \/ \E message \in messages : listen_to_browser_message(v, message)
    \/ listen_to_browser_send(v)
    \/ listen_to_browser_closed(v)
    \/ tell_to_browser_build(v)
    \/ tell_to_browser_send(v)
    \/ handle_browser_return(v)
    \/ browser_disconnect(v)

\* One ingestion connection and one viewer session, every frame of the model.
Next ==
    \/ BusStep("bus1", BusMessages)
    \/ BrowserStep("browser1", WindowMessages)

Spec == Init /\ [][Next]_vars

\* Several ingestion connections writing to the store.
NextIngest == \E c \in BusConns : BusStep(c, BusMessages)

SpecIngest == Init /\ [][NextIngest]_vars

\* Several viewer sessions beside an ingestion connection.
NextViewers ==
    \/ BusStep("bus1", {GoodBus(0), GoodBus(1), NotJson})
    \/ \E v \in Browsers : BrowserStep(v, {GoodWindow, BadWindow})

SpecViewers == Init /\ [][NextViewers]_vars

\* One session under the scheduler's fairness: a duty that can run does run
\* (a closed connection wakes get_message, a sleep ends, a send returns or
\* raises).  What the clients do is under no fairness.
NextLive ==
    \/ BusStep("bus1", {GoodBus(1), NotJson})
    \/ BrowserStep("browser1", {GoodWindow, BadWindow})

Fairness ==
    \A v \in Browsers :
        /\ WF_vars(listen_to_browser_send(v))
        /\ WF_vars(listen_to_browser_closed(v))
        /\ WF_vars(tell_to_browser_build(v))
        /\ WF_vars(tell_to_browser_send(v))
        /\ WF_vars(handle_browser_return(v))

SpecLive == Init /\ [][NextLive]_vars /\ Fairness

\* The producer: every vehicle, channel and sender, the connections failing
\* at any time.
VehicleStep(b) == run_bus_send(b)

SlotStep(s) ==
    \/ hand_off(s)
    \/ send_bus_updates_connect(s)
    \/ send_bus_updates_handshake_error(s)
    \/ send_bus_updates_send(s)
    \/ relaunch_on_disconnect_wake(s)
    \/ updates_disconnect(s)

NextProducer ==
    \/ \E b \in Vehicles : VehicleStep(b)
    \/ \E s \in Slots : SlotStep(s)

SpecProducer == Init /\ [][NextProducer]_vars

\* Most messages the vehicles build while the history records them.
MaxSerial == 3

RECURSIVE Total(_, _)
Total(counts, keys) ==
    IF keys = {} THEN 0
    ELSE LET k == CHOOSE x \in keys : TRUE
         IN  counts[k] + Total(counts, keys \ {k})

\* The producer with its messages numbered as the vehicles build them and
\* logged as the senders forward or lose them.
InitForward ==
    /\ ProducerInit
    /\ ServerInit
    /\ recording = TRUE

NextForward ==
    \/ \E b \in Vehicles :
        /\ Total(built, Vehicles) < MaxSerial
        /\ VehicleStep(b)
    \/ \E s \in Slots : SlotStep(s)

SpecForward == InitForward /\ [][NextForward]_vars

\* The producer when the receiving side of a channel may go away.
NextGone ==
    \/ NextProducer
    \/ \E s \in Slots : receive_channel_gone(s)
    \/ \E b \in Vehicles : run_bus_broken(b)
    \/ main_cancel

SpecGone == Init /\ [][NextGone]_vars

\* An ingestion connection and a viewer session whose clients send ahead of
\* the handlers: every frame goes through the connection's receive queue.
OrderBusMessages == {GoodBus(0), GoodBus(1), NotJson}
OrderWindowMessages == {GoodWindow, CoercedWindow, BadWindow}

NextOrder ==
    \/ bus_accept("bus1")
    \/ \E message \in OrderBusMessages : client_send("bus1", message)
    \/ /\ inbox["bus1"] # <<>>
       /\ handle_bus_message("bus1", next_message(inbox["bus1"]))
    \/ handle_bus_send("bus1")
    \/ handle_bus_closed("bus1")
    \/ bus_disconnect("bus1")
    \/ handle_browser_accept("browser1")
    \/ \E message \in OrderWindowMessages : client_send("browser1", message)
    \/ /\ inbox["browser1"] # <<>>
       /\ listen_to_browser_message("browser1", next_message(inbox["browser1"]))
    \/ listen_to_browser_send("browser1")
    \/ listen_to_browser_closed("browser1")
    \/ tell_to_browser_build("browser1")
    \/ tell_to_browser_send("browser1")
    \/ handle_browser_return("browser1")
    \/ browser_disconnect("browser1")

SpecOrder == Init /\ [][NextOrder]_vars

\* Several viewer sessions beside an ingestion connection, the duties under
\* the scheduler's fairness; the clients connect, send and hang up as they
\* like.
SpecChurn == Init /\ [][NextViewers]_vars /\ Fairness

---------------------------------------------------------------------------
(* Position store: validation and writes (SpecIngest) *)

\* C1: handling a position frame that fails validation leaves the store
\* identical: on every ingestion connection, the step that takes such a frame
\* (the step that goes on to send the errors) adds, removes and changes no
\* entry.
C1_InvalidLeavesStore ==
    [][\A c \in BusConns :
          /\ \A message \in BusMessages :
                 (validate_bus(message).errors # None /\ handle_bus_message(c, message))
                     => buses_data' = buses_data
          /\ (bus_pc[c] = "get_message" /\ bus_pc'[c] = "send_message")
                 => buses_data' = buses_data]_vars

\* An invalid frame has been taken on a connection while the store holds
\* positions.
C1_Witness ==
    \E c \in BusConns : bus_pc[c] = "send_message" /\ DOMAIN buses_data # {}

\* C2: every entry of the store is kept under its own busId, that busId is a
\* non-empty string, lat and lng are numbers and route is a string.
C2_StoreWellFormed ==
    \A k \in DOMAIN buses_data :
        LET bus == buses_data[k] IN
            /\ bus.busId = k
            /\ k.t = "str" /\ k.s # ""
            /\ bus.lat.t = "num" /\ bus.lng.t = "num"
            /\ bus.route.t = "str"

\* C2, the part the code keeps: as C2_StoreWellFormed, the busId possibly
\* the empty string.
C2_StoreTyped ==
    \A k \in DOMAIN buses_data :
        LET bus == buses_data[k] IN
            /\ bus.busId = k
            /\ k.t = "str"
            /\ bus.lat.t = "num" /\ bus.lng.t = "num"
            /\ bus.route.t = "str"

\* C3: the entry of each busId is, field for field, the Bus validated from
\* the frame last applied for that busId, whichever connection it came on: a
\* later frame replaces the whole entry and a write leaves the entries of the
\* other busIds as they were.
C3_EntryIsLastApplied ==
    /\ DOMAIN buses_data = DOMAIN bus_applied
    /\ \A k \in DOMAIN buses_data :
           buses_data[k] = validate_bus(bus_applied[k].frame).bus

\* An entry has been replaced by a different frame while another busId is in
\* the store.
C3_Witness ==
    \E k \in DOMAIN bus_applied :
        /\ bus_applied[k].replaced
        /\ \E j \in DOMAIN buses_data : j # k

---------------------------------------------------------------------------
(* Viewer sessions (Spec, SpecViewers, SpecLive) *)

IsErrors(frame) == frame.msg # None /\ frame.msg.msgType = "Errors"
IsBuses(frame) == frame.msg # None /\ frame.msg.msgType = "Buses"

\* C4: after every step the bounds of a viewer connection are those validated
\* from the frame last applied on that connection, or the all-zero rectangle
\* when none has been; the step that takes a frame failing validation leaves
\* the four bounds as they were.
C4_ViewportIsLastValid ==
    [][\A v \in Browsers :
          /\ browser_pc'[v] = "nursery" =>
                 window_boundaries'[v] =
                     IF window_applied'[v] = None
                     THEN WindowBound(Num(0), Num(0), Num(0), Num(0))
                     ELSE validate_window_bounds(window_applied'[v]).new_window
          /\ \A message \in WindowMessages :
                 (/\ validate_window_bounds(message).errors # None
                  /\ listen_to_browser_message(v, message))
                     => window_boundaries'[v] = window_boundaries[v]
          /\ (listen_pc[v] = "get_message" /\ listen_pc'[v] = "send_message")
                 => window_boundaries'[v] = window_boundaries[v]]_vars

\* An invalid frame has been taken on a connection whose bounds come from an
\* earlier valid one.
C4_Witness ==
    \E v \in Browsers :
        /\ listen_pc[v] = "send_message"
        /\ window_applied[v] # None
        /\ window_boundaries[v] # WindowBound(Num(0), Num(0), Num(0), Num(0))

\* The stored buses strictly inside `bounds`.
StrictlyInside(bounds) ==
    {buses_data[k] : k \in
        {j \in DOMAIN buses_data :
            /\ bounds.south_lat.n < buses_data[j].lat.n
            /\ buses_data[j].lat.n < bounds.north_lat.n
            /\ bounds.west_lng.n < buses_data[j].lng.n
            /\ buses_data[j].lng.n < bounds.east_lng.n}}

\* A stored bus on an edge of `bounds`.
OnEdge(bounds) ==
    {buses_data[k] : k \in
        {j \in DOMAIN buses_data :
            \/ buses_data[j].lat.n \in {bounds.south_lat.n, bounds.north_lat.n}
            \/ buses_data[j].lng.n \in {bounds.west_lng.n, bounds.east_lng.n}}}

\* C5: the Buses message tell_to_browser builds lists exactly the stored
\* buses with south_lat < lat < north_lat and west_lng < lng < east_lng for
\* the connection's bounds (a bus on an edge is left out), and the frame it
\* sends is the message it built; no other step sends a Buses frame.
C5_BusesAreExactlyInside ==
    [][\A v \in Browsers :
          /\ (tell_pc[v] = "build" /\ tell_pc'[v] = "send_message")
                 => response_msg'[v] = Buses(StrictlyInside(window_boundaries[v]))
          /\ (tell_pc[v] = "send_message" /\ tell_pc'[v] = "build")
                 => wire' = Frame(v, response_msg[v])
          /\ (IsBuses(wire') /\ wire'.conn = v /\ wire' # wire)
                 => tell_pc[v] = "send_message" /\ wire'.msg = response_msg[v]]_vars

\* A message listing a bus is pending while another stored bus lies on an
\* edge of the bounds it was built for.
C5_Witness ==
    \E v \in Browsers :
        /\ tell_pc[v] = "send_message"
        /\ response_msg[v] = Buses(StrictlyInside(window_boundaries[v]))
        /\ response_msg[v].buses # {}
        /\ OnEdge(window_boundaries[v]) # {}

\* C6: on a viewer connection where no valid frame has been applied, every
\* Buses message, pending or just sent, lists no bus, whatever the store
\* holds and the other connections do.
C6_DefaultViewportShowsNothing ==
    \A v \in Browsers :
        (browser_pc[v] = "nursery" /\ window_applied[v] = None) =>
            /\ response_msg[v] # None => response_msg[v].buses = {}
            /\ (IsBuses(wire) /\ wire.conn = v) => wire.msg.buses = {}

\* An empty Buses frame has just been sent on a connection that never had a
\* valid frame, while the store holds a bus and another viewer has bounds of
\* its own.
C6_Witness ==
    \E v \in Browsers : \E u \in Browsers \ {v} :
        /\ browser_pc[v] = "nursery" /\ window_applied[v] = None
        /\ wire = Frame(v, Buses({}))
        /\ DOMAIN buses_data # {}
        /\ browser_pc[u] = "nursery" /\ window_applied[u] # None

\* C7: a frame that fails validation makes exactly one Errors reply pending
\* on its own connection and a frame that passes makes none; a pending reply
\* is sent once, on that connection, unless the connection has closed; an
\* Errors frame is sent by no other step.  On a viewer connection this
\* happens while tell_to_browser goes on sending Buses.
C7_ErrorsReply ==
    [][/\ \A c \in BusConns :
            /\ \A message \in BusMessages :
                   handle_bus_message(c, message) =>
                       /\ wire' = NoFrame
                       /\ IF validate_bus(message).errors # None
                          THEN /\ bus_pc'[c] = "send_message"
                               /\ bus_errors'[c] = validate_bus(message).errors
                               /\ bus_errors'[c].errors # <<>>
                          ELSE bus_pc'[c] = "get_message"
            /\ (bus_pc[c] = "send_message" /\ bus_pc'[c] # "send_message") =>
                   wire' = IF bus_ws[c] = "open" THEN Frame(c, bus_errors[c])
                           ELSE NoFrame
            /\ (IsErrors(wire') /\ wire'.conn = c /\ wire' # wire) =>
                   /\ bus_pc[c] = "send_message" /\ bus_pc'[c] # "send_message"
                   /\ wire'.msg = bus_errors[c]
       /\ \A v \in Browsers :
            /\ \A message \in WindowMessages :
                   listen_to_browser_message(v, message) =>
                       /\ wire' = NoFrame
                       /\ IF validate_window_bounds(message).errors # None
                          THEN /\ listen_pc'[v] = "send_message"
                               /\ listen_errors'[v] =
                                      validate_window_bounds(message).errors
                               /\ listen_errors'[v].errors # <<>>
                          ELSE listen_pc'[v] = "get_message"
            /\ (listen_pc[v] = "send_message" /\ listen_pc'[v] # "send_message") =>
                   wire' = IF browser_ws[v] = "open" THEN Frame(v, listen_errors[v])
                           ELSE NoFrame
            /\ (IsErrors(wire') /\ wire'.conn = v /\ wire' # wire) =>
                   /\ listen_pc[v] = "send_message" /\ listen_pc'[v] # "send_message"
                   /\ wire'.msg = listen_errors[v]]_vars

\* An Errors frame has just been sent on a viewer connection whose
\* broadcaster has a Buses message pending, while a reply is pending on an
\* ingestion connection.
C7_Witness ==
    \E v \in Browsers : \E c \in BusConns :
        /\ IsErrors(wire) /\ wire.conn = v
        /\ tell_pc[v] = "send_message"
        /\ bus_pc[c] = "send_message"

\* C8: an Errors reply never ends the loop: after it handle_bus and
\* listen_to_browser are back at get_message, the loops end only on a closed
\* connection, and a valid frame taken right after a reply is applied to the
\* store, respectively to the bounds.
C8_LoopSurvivesInvalid ==
    [][/\ \A c \in BusConns :
            /\ (bus_pc[c] = "send_message" /\ bus_ws[c] = "open"
                    /\ bus_pc'[c] # "send_message") => bus_pc'[c] = "get_message"
            /\ (bus_pc[c] # "returned" /\ bus_pc'[c] = "returned")
                   => bus_ws[c] = "closed"
            /\ \A message \in BusMessages :
                   (/\ IsErrors(wire) /\ wire.conn = c
                    /\ validate_bus(message).errors = None
                    /\ handle_bus_message(c, message))
                       => /\ validate_bus(message).bus.busId \in DOMAIN buses_data'
                          /\ buses_data'[validate_bus(message).bus.busId] =
                                 validate_bus(message).bus
       /\ \A v \in Browsers :
            /\ (listen_pc[v] = "send_message" /\ browser_ws[v] = "open"
                    /\ listen_pc'[v] # "send_message") => listen_pc'[v] = "get_message"
            /\ (listen_pc[v] # "done" /\ listen_pc'[v] = "done")
                   => browser_ws[v] = "closed"
            /\ \A message \in WindowMessages :
                   (/\ IsErrors(wire) /\ wire.conn = v
                    /\ validate_window_bounds(message).errors = None
                    /\ listen_to_browser_message(v, message))
                       => window_boundaries'[v] =
                              validate_window_bounds(message).new_window]_vars

\* Both loops are at get_message on open connections, the ingestion one right
\* after its Errors reply.
C8_Witness ==
    \E c \in BusConns : \E v \in Browsers :
        /\ IsErrors(wire) /\ wire.conn = c
        /\ bus_pc[c] = "get_message" /\ bus_ws[c] = "open"
        /\ listen_pc[v] = "get_message" /\ browser_ws[v] = "open"

\* C9: once a viewer connection is closed both duties end and handle_browser
\* returns; handle_browser returns only when both have ended, the
\* broadcaster ends at its first failed send and sends no Buses frame after.
C9_SessionEnds ==
    /\ \A v \in Browsers :
           (browser_pc[v] = "nursery" /\ browser_ws[v] = "closed")
               ~> (browser_pc[v] = "returned")
    /\ [](\A v \in Browsers :
            (browser_pc[v] = "nursery" /\ tell_pc[v] = "done")
                => ~(IsBuses(wire) /\ wire.conn = v))
    /\ [][\A v \in Browsers :
            /\ (tell_pc[v] = "send_message" /\ browser_ws[v] = "closed"
                    /\ tell_pc'[v] # "send_message") => tell_pc'[v] = "done"
            /\ (browser_pc[v] = "nursery" /\ browser_pc'[v] = "returned")
                   => listen_pc[v] = "done" /\ tell_pc[v] = "done"]_vars

\* handle_browser has returned from a session whose connection closed.
C9_Witness ==
    \E v \in Browsers :
        /\ browser_pc[v] = "returned" /\ browser_ws[v] = "closed"
        /\ listen_pc[v] = "done" /\ tell_pc[v] = "done"

\* C10: the store changes only in a step of handle_bus that applies a valid
\* frame, and no entry is ever removed: a viewer connecting, a bounds update,
\* a broadcast, an invalid frame and the closing of any connection leave it
\* as it is.
C10_StoreChangesOnlyByIngestion ==
    [][/\ buses_data' # buses_data =>
            \E c \in BusConns : \E message \in BusMessages :
                /\ validate_bus(message).errors = None
                /\ handle_bus_message(c, message)
       /\ \A k \in DOMAIN buses_data : k \in DOMAIN buses_data'
       /\ (bus_ws' # bus_ws \/ bus_pc' # bus_pc \/ browser_vars' # browser_vars)
            => buses_data' = buses_data]_vars

\* The store still holds positions after their source's handler has returned
\* and after a viewer session has come and gone.
C10_Witness ==
    \E c \in BusConns : \E v \in Browsers :
        /\ bus_pc[c] = "returned" /\ bus_ws[c] = "closed"
        /\ browser_pc[v] = "returned"
        /\ DOMAIN buses_data # {}

---------------------------------------------------------------------------
(* Several viewers (SpecViewers) *)

\* C11: the bounds of an open viewer connection change only in a step of its
\* own listener applying a valid frame: no frame, valid or not, taken on
\* another connection, no connect, disconnect or return of another session
\* changes them; and a session that connects starts with the all-zero
\* rectangle whatever bounds the other sessions have.
C11_ViewportsIndependent ==
    [][\A v \in Browsers :
          /\ (browser_pc[v] = "nursery" /\ browser_pc'[v] = "nursery"
                  /\ window_boundaries'[v] # window_boundaries[v])
                 => \E message \in WindowMessages :
                        /\ validate_window_bounds(message).errors = None
                        /\ listen_to_browser_message(v, message)
          /\ \A u \in Browsers \ {v} :
                 (/\ browser_pc[v] = "nursery" /\ browser_pc'[v] = "nursery"
                  /\ \/ listen_pc'[u] # listen_pc[u]
                     \/ window_applied'[u] # window_applied[u]
                     \/ browser_ws'[u] # browser_ws[u]
                     \/ browser_pc'[u] # browser_pc[u])
                     => window_boundaries'[v] = window_boundaries[v]
          /\ (browser_pc[v] # "nursery" /\ browser_pc'[v] = "nursery")
                 => window_boundaries'[v] =
                        WindowBound(Num(0), Num(0), Num(0), Num(0))]_vars

\* A session has connected and taken an invalid frame, its bounds the
\* all-zero rectangle, while another open session has bounds of its own.
C11_Witness ==
    \E v \in Browsers : \E u \in Browsers \ {v} :
        /\ browser_pc[v] = "nursery" /\ browser_ws[v] = "open"
        /\ window_boundaries[v] = validate_window_bounds(GoodWindow).new_window
        /\ browser_pc[u] = "nursery" /\ listen_pc[u] = "send_message"
        /\ window_boundaries[u] = WindowBound(Num(0), Num(0), Num(0), Num(0))

---------------------------------------------------------------------------
(* The bounds a broadcast is built with (Spec) *)

\* The rectangle of the frame last applied on connection v.
AppliedWindow(v) == validate_window_bounds(window_applied[v]).new_window

\* C12: once a valid frame has been applied on a viewer connection, every
\* Buses message built from then on, the very next one included, lists only
\* (and all) stored buses strictly inside the rectangle of the frame applied
\* last, never a bus that is inside an earlier rectangle only.
C12_NextBroadcastUsesNewBounds ==
    [][\A v \in Browsers :
          (/\ tell_pc[v] = "build" /\ tell_pc'[v] = "send_message"
           /\ window_applied[v] # None)
              => /\ \A bus \in response_msg'[v].buses :
                        /\ AppliedWindow(v).south_lat.n < bus.lat.n
                        /\ bus.lat.n < AppliedWindow(v).north_lat.n
                        /\ AppliedWindow(v).west_lng.n < bus.lng.n
                        /\ bus.lng.n < AppliedWindow(v).east_lng.n
                 /\ response_msg'[v].buses = StrictlyInside(AppliedWindow(v))]_vars

\* A message built after the second rectangle was applied is pending:
\* it lists the bus inside that rectangle and leaves out a stored bus that is
\* inside the first rectangle only.
C12_Witness ==
    \E v \in Browsers :
        /\ tell_pc[v] = "send_message"
        /\ window_applied[v] = CoercedWindow
        /\ response_msg[v].buses # {}
        /\ response_msg[v].buses = StrictlyInside(AppliedWindow(v))
        /\ StrictlyInside(validate_window_bounds(GoodWindow).new_window) # {}
        /\ StrictlyInside(validate_window_bounds(GoodWindow).new_window)
               \cap response_msg[v].buses = {}

---------------------------------------------------------------------------
(* The producer (SpecProducer) *)

VehiclesOf(s) == {b \in Vehicles : bus_send_channel[b] = s}

\* The messages waiting in channel s, parked or buffered.
Waiting(s) ==
    {send_tasks[s][i] : i \in 1..Len(send_tasks[s])}
        \cup {channel_data[s][i] : i \in 1..Len(channel_data[s])}

\* C13: every vehicle has one slot; the first vehicle created has the first
\* slot and each next vehicle the next slot, starting over after the last,
\* so that the slots' numbers of vehicles differ by at most one; no step
\* changes a vehicle's slot; and every message waiting in the channel of a
\* slot, and every parked vehicle, belongs to that slot, also after the
\* slot's connection has failed and been opened again.
C13_RoundRobinSlots ==
    /\ \A b \in Vehicles : bus_send_channel[b] \in Slots
    /\ bus_send_channel[1] = 1
    /\ \A b \in Vehicles \ {1} :
           bus_send_channel[b] =
               IF bus_send_channel[b - 1] = websockets_number THEN 1
               ELSE bus_send_channel[b - 1] + 1
    /\ \A s, t \in Slots :
           Cardinality(VehiclesOf(s)) <= Cardinality(VehiclesOf(t)) + 1
    /\ \A s \in Slots : \A message \in Waiting(s) :
           bus_send_channel[message.busId] = s
    /\ \A b \in Vehicles :
           run_bus_pc[b] = "send" =>
               bus_message(b, run_bus_point[b]) \in Waiting(bus_send_channel[b])

\* Both vehicles of the first slot are parked in its channel while the slot,
\* having failed, is connected again.
C13_Witness ==
    /\ Cardinality(VehiclesOf(1)) > 1
    /\ \A b \in VehiclesOf(1) : run_bus_pc[b] = "send"
    /\ updates_failures[1] > 0
    /\ updates_ws[1] = "open" /\ updates_pc[1] = "receive"

\* All there is of slot s: its sender, connection, channel and vehicles.
SlotState(s) ==
    <<updates_pc[s], updates_ws[s], updates_message[s], updates_failures[s],
      send_tasks[s], channel_data[s],
      [b \in Vehicles |->
          IF bus_send_channel[b] = s THEN <<run_bus_pc[b], run_bus_point[b]>>
          ELSE <<>>]>>

SlotDown(s) ==
    updates_pc[s] \in {"sleep", "connect"} \/ updates_ws[s] = "closed"

\* C14: a step that changes anything of one slot (its connection failing,
\* its sender sleeping or connecting again, its vehicles) changes nothing of
\* another; while a slot is down, the hand-off of another slot whose sender
\* is receiving with a vehicle parked, and the forwarding of a message it has
\* taken, can go on; and a frame sent on a slot's connection is a message of
\* a vehicle of that slot.
C14_SlotsIndependent ==
    /\ [][\A i \in Slots : \A j \in Slots \ {i} :
             SlotState(i)' # SlotState(i) => SlotState(j)' = SlotState(j)]_vars
    /\ [](\A i \in Slots : \A j \in Slots \ {i} :
             SlotDown(i) =>
                 /\ (updates_pc[j] = "receive" /\ send_tasks[j] # <<>>)
                        => ENABLED hand_off(j)
                 /\ updates_pc[j] = "send_message"
                        => ENABLED send_bus_updates_send(j)
                 /\ \A b \in VehiclesOf(j) :
                        run_bus_pc[b] = "sleep" => ENABLED run_bus_send(b))
    /\ [](sent.slot # 0 => bus_send_channel[sent.message.busId] = sent.slot)

\* A slot has just forwarded a message while another, after a failure, waits
\* out its delay with a vehicle parked in its channel.
C14_Witness ==
    \E i \in Slots : \E j \in Slots \ {i} :
        /\ updates_pc[i] = "sleep" /\ updates_failures[i] > 0
        /\ send_tasks[i] # <<>>
        /\ sent.slot = j

\* C15: a sender is always connecting, receiving, forwarding or waiting out
\* the delay, never ended; a failed connect and a send on a closed
\* connection both put it in the delay; the delay is left only for a new
\* connect and can always be left; and a connect is entered only from the
\* delay, however many failures came before.
C15_SenderRetriesForever ==
    /\ [](\A s \in Slots :
             /\ updates_pc[s] \in {"connect", "receive", "send_message", "sleep"}
             /\ updates_pc[s] = "sleep" => ENABLED relaunch_on_disconnect_wake(s))
    /\ [][\A s \in Slots :
             /\ (updates_pc[s] = "connect" /\ updates_pc'[s] # "connect"
                     /\ updates_ws'[s] # "open") => updates_pc'[s] = "sleep"
             /\ (updates_pc[s] = "send_message" /\ updates_ws[s] # "open"
                     /\ updates_pc'[s] # "send_message") => updates_pc'[s] = "sleep"
             /\ (updates_pc[s] = "sleep" /\ updates_pc'[s] # "sleep")
                    => updates_pc'[s] = "connect"
             /\ (updates_pc[s] # "connect" /\ updates_pc'[s] = "connect")
                    => updates_pc[s] = "sleep"
             /\ updates_failures'[s] > updates_failures[s]
                    => updates_pc'[s] = "sleep"]_vars

\* After as many consecutive failures as the history counts, one slot is
\* connecting again and another, whose send failed, waits out its delay.
C15_Witness ==
    \E s \in Slots : \E t \in Slots \ {s} :
        /\ updates_failures[s] = MaxFailures /\ updates_pc[s] = "connect"
        /\ updates_failures[t] > 0 /\ updates_pc[t] = "sleep"

\* C16: no channel ever holds a buffered message; a vehicle parked in send
\* leaves it only in the step in which its slot's sender, receiving, takes
\* its message; until then its point of the route stays; and a vehicle moves
\* to its next point only after its last message was taken.
C16_ZeroCapacityHandOff ==
    /\ [](\A s \in Slots : channel_data[s] = <<>>)
    /\ [][\A b \in Vehicles :
             LET s == bus_send_channel[b] IN
             /\ (run_bus_pc[b] = "send" /\ run_bus_pc'[b] # "send")
                    => /\ updates_pc[s] = "receive"
                       /\ updates_pc'[s] = "send_message"
                       /\ updates_message'[s] = bus_message(b, run_bus_point[b])
                       /\ run_bus_pc'[b] = "sleep"
             /\ run_bus_pc[b] = "send" => run_bus_point'[b] = run_bus_point[b]
             /\ (run_bus_pc[b] # "sleep" /\ run_bus_pc'[b] = "sleep")
                    => run_bus_pc[b] = "send"
             /\ (updates_pc[s] # "receive" /\ run_bus_pc[b] = "send")
                    => run_bus_pc'[b] = "send"]_vars

\* Every vehicle of a slot is parked while its sender waits out the delay
\* after a failure, and a vehicle of another slot has had a message taken.
C16_Witness ==
    \E s \in Slots :
        /\ updates_pc[s] = "sleep" /\ updates_failures[s] > 0
        /\ Len(send_tasks[s]) > 1
        /\ \A b \in VehiclesOf(s) : run_bus_pc[b] = "send"
        /\ \E b \in Vehicles \ VehiclesOf(s) : run_bus_pc[b] = "sleep"

---------------------------------------------------------------------------
(* A channel whose receiving side is gone (SpecGone) *)

\* C17: once the receive end of a slot's channel is closed, each vehicle of
\* the slot is still before its next hand-off attempt, or is ending on the
\* BrokenResourceError it was woken with, or has returned: none is parked,
\* and none has ended with an error that nothing caught, whichever of the
\* slot's vehicles closed the shared send end first.
C17_VehiclesEndCleanly ==
    \A b \in Vehicles :
        receive_closed[bus_send_channel[b]] =>
            run_bus_pc[b] \in {"started", "sleep", "broken", "returned"}

---------------------------------------------------------------------------
(* Order within a connection (SpecOrder) *)

\* The frames of connection c that get_message has returned, in order.
Handled(c) == SubSeq(arrived[c], 1, handled[c])

\* C18: on each connection the frames are read in the order they arrived,
\* the unread ones waiting in that order; a frame is read only when the one
\* before it is done with, its Errors reply sent; an Errors reply, pending or
\* just sent, answers the frame read last; and the store holds, for a
\* vehicle, the position of the last valid frame read for it (the bounds of a
\* viewer: the rectangle of the last valid frame read), never that of an
\* earlier one.
C18_ArrivalOrder ==
    /\ [](\A c \in BusConns \cup Browsers :
             /\ handled[c] <= Len(arrived[c])
             /\ inbox[c] = SubSeq(arrived[c], handled[c] + 1, Len(arrived[c])))
    /\ [](\A c \in BusConns :
             /\ \A i \in 1..handled[c] :
                    LET this == validate_bus(arrived[c][i]) IN
                    (/\ this.errors = None
                     /\ \A j \in (i + 1)..handled[c] :
                            LET later == validate_bus(arrived[c][j]) IN
                            later.errors # None \/ later.bus.busId # this.bus.busId)
                        => /\ this.bus.busId \in DOMAIN buses_data
                           /\ buses_data[this.bus.busId] = this.bus
             /\ bus_pc[c] = "send_message" =>
                    /\ handled[c] > 0
                    /\ bus_errors[c] = validate_bus(arrived[c][handled[c]]).errors
             /\ (IsErrors(wire) /\ wire.conn = c) =>
                    wire.msg = validate_bus(arrived[c][handled[c]]).errors)
    /\ [](\A v \in Browsers :
             /\ browser_pc[v] = "nursery" =>
                    \A i \in 1..handled[v] :
                        LET this == validate_window_bounds(arrived[v][i]) IN
                        (/\ this.errors = None
                         /\ \A j \in (i + 1)..handled[v] :
                                validate_window_bounds(arrived[v][j]).errors # None)
                            => window_boundaries[v] = this.new_window
             /\ (browser_pc[v] = "nursery" /\ listen_pc[v] = "send_message") =>
                    /\ handled[v] > 0
                    /\ listen_errors[v] =
                           validate_window_bounds(arrived[v][handled[v]]).errors
             /\ (IsErrors(wire) /\ wire.conn = v) =>
                    wire.msg = validate_window_bounds(arrived[v][handled[v]]).errors)
    /\ [][/\ \A c \in BusConns :
                handled'[c] = handled[c] + 1 =>
                    /\ bus_pc[c] = "get_message" /\ bus_errors[c] = None
                    /\ handle_bus_message(c, arrived[c][handled[c] + 1])
           /\ \A v \in Browsers :
                handled'[v] = handled[v] + 1 =>
                    /\ listen_pc[v] = "get_message" /\ listen_errors[v] = None
                    /\ listen_to_browser_message(v, arrived[v][handled[v] + 1])]_vars

\* An older position, a frame that is not JSON and a newer position of the
\* same vehicle arrived on a connection and have all been read: the store
\* holds the newer position.
C18_Witness ==
    \E c \in BusConns :
        /\ arrived[c] = <<GoodBus(0), NotJson, GoodBus(1)>>
        /\ handled[c] = Len(arrived[c])
        /\ bus_pc[c] = "get_message"
        /\ buses_data[Str("a")] = validate_bus(GoodBus(1)).bus

---------------------------------------------------------------------------
(* What one broadcast is computed from (Spec) *)

\* The rectangles a viewer's bounds can be as a whole: the all-zero one and
\* those of the valid frames.
WholeViewports ==
    {WindowBound(Num(0), Num(0), Num(0), Num(0))}
        \cup {validate_window_bounds(message).new_window :
                 message \in {m \in WindowMessages :
                                 validate_window_bounds(m).errors = None}}

\* C19: whenever a duty can run, the four bounds of a viewer connection are
\* those of one rectangle, never two of one frame with two of another; a
\* Buses message is built from one such rectangle and from the store as it
\* is at that instant, every bus it lists being an entry of that store; and
\* the message stays as built until it is sent, whatever is written to the
\* store or the bounds meanwhile.
C19_ConsistentSnapshot ==
    /\ [](\A v \in Browsers :
             browser_pc[v] = "nursery" => window_boundaries[v] \in WholeViewports)
    /\ [][\A v \in Browsers :
             /\ (tell_pc[v] = "build" /\ tell_pc'[v] = "send_message") =>
                    /\ \E bounds \in WholeViewports :
                           response_msg'[v].buses = StrictlyInside(bounds)
                    /\ \A bus \in response_msg'[v].buses :
                           /\ bus.busId \in DOMAIN buses_data
                           /\ buses_data[bus.busId] = bus
             /\ (tell_pc[v] = "send_message" /\ tell_pc'[v] = "send_message")
                    => response_msg'[v] = response_msg[v]
             /\ (tell_pc[v] = "send_message" /\ tell_pc'[v] = "build")
                    => wire'.msg = response_msg[v]]_vars

\* A pending Buses message lists a bus although, since it was built, the
\* second rectangle has replaced the first and the store has been written:
\* it is no longer what the store and the bounds would give.
C19_Witness ==
    \E v \in Browsers :
        /\ tell_pc[v] = "send_message"
        /\ response_msg[v].buses # {}
        /\ window_applied[v] = CoercedWindow
        /\ StrictlyInside(window_boundaries[v]) # {}
        /\ response_msg[v].buses \cap StrictlyInside(window_boundaries[v]) = {}
        /\ \E bus \in response_msg[v].buses : buses_data[bus.busId] # bus

---------------------------------------------------------------------------
(* The broadcaster keeps going (SpecChurn) *)

\* The positions the ingestion connection of SpecChurn can commit.
ChurnPositions == {validate_bus(GoodBus(k)).bus : k \in 0..1}

\* The rectangles a viewer of SpecChurn can have applied.
ChurnViewports == {validate_window_bounds(GoodWindow).new_window}

\* A Buses frame has just been sent to viewer v.
BusesSentTo(v) == IsBuses(wire) /\ wire.conn = v

\* C20: as long as a viewer connection stays open, Buses frames are sent on
\* it again and again, whatever arrives on the ingestion connection, however
\* many invalid frames the viewer sends and whatever the other viewer does;
\* and a position in the store strictly inside the viewer's bounds is
\* listed in a Buses frame sent to the viewer, unless first it is
\* overwritten, the bounds change or the connection closes.
C20_BroadcasterLive ==
    /\ \A v \in Browsers :
           []<>(\/ browser_pc[v] # "nursery" \/ browser_ws[v] # "open"
                \/ BusesSentTo(v))
    /\ \A v \in Browsers : \A bus \in ChurnPositions : \A bounds \in ChurnViewports :
           (/\ browser_pc[v] = "nursery" /\ browser_ws[v] = "open"
            /\ window_boundaries[v] = bounds
            /\ bus \in StrictlyInside(bounds))
               ~> (\/ BusesSentTo(v) /\ bus \in wire.msg.buses
                   \/ bus \notin StrictlyInside(bounds)
                   \/ window_boundaries[v] # bounds
                   \/ browser_ws[v] # "open")

\* A Buses frame listing the stored position has just been sent to a viewer
\* whose listener has an Errors reply pending, while the other viewer's
\* connection is closed and an Errors reply is pending on the ingestion
\* connection.
C20_Witness ==
    \E v \in Browsers : \E u \in Browsers \ {v} : \E c \in BusConns :
        /\ BusesSentTo(v) /\ wire.msg.buses # {}
        /\ browser_ws[v] = "open" /\ listen_pc[v] = "send_message"
        /\ browser_ws[u] = "closed"
        /\ bus_pc[c] = "send_message"

\* C21: each message a vehicle hands off is forwarded at most once, also
\* across a failed send and a reconnect.  With the messages of a vehicle
\* numbered as it builds them: the serials forwarded for a vehicle are serials
\* it has built and are strictly increasing (none is sent twice, and they keep
\* the order in which the vehicle produced them); a serial lost in a failed
\* send is never among the forwarded ones; and the message a sender holds has
\* been neither forwarded nor lost before, and is newer than every message of
\* its vehicle forwarded so far.
SerialsOf(log) == {log[i] : i \in 1..Len(log)}

C21_ForwardedAtMostOnce ==
    recording =>
        /\ \A b \in Vehicles :
            /\ SerialsOf(forwarded[b]) \subseteq 1..built[b]
            /\ dropped[b] \subseteq 1..built[b]
            /\ \A i, j \in 1..Len(forwarded[b]) :
                    i < j => forwarded[b][i] < forwarded[b][j]
            /\ SerialsOf(forwarded[b]) \cap dropped[b] = {}
        /\ \A s \in Slots :
            updates_message[s] # None =>
                LET b == updates_message[s].busId
                IN  /\ taken[s] \in 1..built[b]
                    /\ taken[s] \notin dropped[b]
                    /\ \A n \in SerialsOf(forwarded[b]) : n < taken[s]
        /\ sent # NotSent => forwarded[sent.message.busId] # <<>>

\* A vehicle's first message was forwarded, its second was taken and lost in
\* a failed send, and after the reconnect its third has been forwarded: the
\* second was not sent again.
C21_Witness ==
    /\ recording
    /\ \E b \in Vehicles :
        /\ forwarded[b] = <<1, 3>>
        /\ dropped[b] = {2}
        /\ sent # NotSent
        /\ sent.message.busId = b


=============================================================================
